---- MODULE Spec2Model ----
(***************************************************************************)
(* Availability resolution and slot reservation of the salon booking       *)
(* system: the booking form (AppointmentForm.tsx) and the service          *)
(* availability manager (ServiceAvailabilityManager) against the shared    *)
(* store tables available_dates, available_times, service_availability    *)
(* and appointments.                                                       *)
(*                                                                         *)
(* Dates and times are day / slot indices; the code compares the           *)
(* fixed-width strings YYYY-MM-DD and HH:MM, whose lexicographic order is  *)
(* the order of the indices.  Both tables are taken to hold the same       *)
(* textual form of a time.                                                 *)
(***************************************************************************)
EXTENDS Integers, Sequences, FiniteSets, TLC

NumServices == 2
NumDates == 2
NumTimes == 2
MaxAdds == 1
MaxSlots == 2
MaxGeneral == 2
MaxRaceAdds == 2

\* .limit(100) of the suggestion query
ScanLimit == 100
Empty == 0
\* a client name typed into the form
Typed == 1
Services == 1..NumServices
Dates == 1..NumDates
Times == 1..NumTimes
Clients == {"c1", "c2"}
Admins == {"a1", "a2"}

\* the first id the store hands out after the rows it starts with
FirstId == 2 + NumTimes

VARIABLES
  today,                 \* new Date().toISOString().split('T')[0]
  nextId,                \* next row id the store hands out
  available_dates,       \* table: [id, date]
  available_times,       \* table: [id, date_id, time, is_available]
  service_availability,  \* table: [id, service_id, date_id, time, is_available]
  appointments,          \* table: [id, client_name, service_id, date, time, status]
  selectedService,       \* manager state, per admin session
  selectedDate,
  serviceAvailability,   \* manager's displayed rows: set of [id, time, is_available]
  error,                 \* manager's error message: "" or "duplicate"
  adding,                \* position of the session in a handleAddTime run step by
                         \* step, with the values its closure holds
  formData,              \* booking form state, per client session: [name, service, date, time]
  availableTimes,        \* sequence of [time, is_available] the form offers
  availableDates,        \* sequence of dates the form offers
  hasServiceConfiguration,
  serviceSuggestion,     \* <<>> or <<kind, service, date, time>>, kind "slot" or "choose"
  pending,               \* the calls of checkServiceConfiguration still running: the
                         \* service and the hasServiceConfiguration their closure holds
  fetching,              \* the calls of fetchServiceSpecificTimes still running: their
                         \* arguments
  pc,                    \* position of the session in handleSubmit
  dateData,              \* handleSubmit's dateData (row id, or Empty)
  slotData,              \* handleSubmit's serviceAvailability (row id, or Empty)
  outcome,               \* "none", "error" (alert) or "submitted" (onSubmit called)
  offered,               \* history: slotsFor listed the time when handleSubmit started
  added,                 \* history: ids of the rows handleAddTime inserted
  displaced,             \* history: ids of the rows whose insertion removed a general row
  released,              \* history: the calls of handleRemoveTime, numbered per row
                         \* (0: the operator declined)
  toggled                \* history: the call of handleToggleAvailability no manager has
                         \* acted since, and the flag the row had before it

storeVars == <<nextId, available_dates, available_times, service_availability, appointments>>
adminVars == <<selectedService, selectedDate, serviceAvailability, error, adding>>
formVars == <<formData, availableTimes, availableDates, hasServiceConfiguration,
              serviceSuggestion, pending, fetching>>
submitVars == <<pc, dateData, slotData, outcome, offered>>
histVars == <<added, displaced, released, toggled>>
vars == <<today, storeVars, adminVars, formVars, submitVars, histVars>>

----------------------------------------------------------------------------
(* Store queries *)

\* .maybeSingle(): the row when exactly one matches, no data otherwise
Found(rows) == Cardinality(rows) = 1

TheRow(rows) == CHOOSE r \in rows : TRUE

DateRows(date) == {r \in available_dates : r.date = date}

DateOf(dateId) == (CHOOSE r \in available_dates : r.id = dateId).date

RowBefore(a, b) == a.time < b.time \/ (a.time = b.time /\ a.id < b.id)

\* .order('time'): the rows as a sequence, ascending by time
RECURSIVE OrderByTime(_)
OrderByTime(rows) ==
  IF rows = {} THEN <<>>
  ELSE LET first == CHOOSE r \in rows : \A q \in rows : q = r \/ RowBefore(r, q)
       IN <<first>> \o OrderByTime(rows \ {first})

\* .select('time, is_available')
SelectTimeAvail(rowSeq) ==
  [i \in DOMAIN rowSeq |-> [time |-> rowSeq[i].time, is_available |-> rowSeq[i].is_available]]

RECURSIVE SortAsc(_)
SortAsc(s) ==
  IF s = <<>> THEN <<>>
  ELSE LET i == CHOOSE k \in DOMAIN s : \A j \in DOMAIN s : s[k] <= s[j]
       IN <<s[i]>> \o SortAsc(SubSeq(s, 1, i - 1) \o SubSeq(s, i + 1, Len(s)))

RECURSIVE OrderById(_)
OrderById(rows) ==
  IF rows = {} THEN <<>>
  ELSE LET first == CHOOSE r \in rows : \A q \in rows : r.id <= q.id
       IN <<first>> \o OrderById(rows \ {first})

----------------------------------------------------------------------------
(* ServiceAvailabilityManager *)

\* fetchServiceAvailability: the rows of (service, date) the manager shows
FetchServiceAvailability(sa, dates, service, date) ==
  LET dateRows == {r \in dates : r.date = date}
  IN IF Found(dateRows)
     THEN {[id |-> r.id, time |-> r.time, is_available |-> r.is_available] :
             r \in {q \in sa : q.service_id = service /\ q.date_id = TheRow(dateRows).id}}
     ELSE {}

\* removeFromGeneralAvailability: the general table after the call
RemoveFromGeneralAvailability(at, dateId, timeToRemove) ==
  LET generalTime == {r \in at : r.date_id = dateId /\ r.time = timeToRemove}
  IN IF Found(generalTime) THEN at \ generalTime ELSE at

SetSelectedService(a, s) ==
  /\ selectedService[a] # s
  /\ selectedService' = [selectedService EXCEPT ![a] = s]
  /\ serviceAvailability' =
       IF selectedDate[a] # Empty
       THEN [serviceAvailability EXCEPT ![a] =
               FetchServiceAvailability(service_availability, available_dates, s, selectedDate[a])]
       ELSE serviceAvailability
  /\ toggled' = {}
  /\ UNCHANGED <<today, storeVars, selectedDate, error, adding, formVars, submitVars, added, displaced,
                 released>>

SetSelectedDate(a, d) ==
  /\ selectedDate[a] # d
  /\ d >= today
  /\ selectedDate' = [selectedDate EXCEPT ![a] = d]
  /\ serviceAvailability' =
       IF selectedService[a] # Empty
       THEN [serviceAvailability EXCEPT ![a] =
               FetchServiceAvailability(service_availability, available_dates, selectedService[a], d)]
       ELSE serviceAvailability
  /\ toggled' = {}
  /\ UNCHANGED <<today, storeVars, selectedService, error, adding, formVars, submitVars, added, displaced,
                 released>>

\* mutation: no check for an existing row of (service, date, time)
HandleAddTimeUnchecked(a, time) ==
  /\ selectedService[a] # Empty
  /\ selectedDate[a] # Empty
  /\ LET existingDate == DateRows(selectedDate[a])
         dateId == IF Found(existingDate) THEN TheRow(existingDate).id ELSE nextId
         dates1 == IF Found(existingDate) THEN available_dates
                   ELSE available_dates \cup {[id |-> nextId, date |-> selectedDate[a]]}
         id1 == IF Found(existingDate) THEN nextId ELSE nextId + 1
         existingTime == {}
     IN /\ ~Found(existingTime) => Cardinality(added) < MaxAdds
        /\ available_dates' = dates1
        /\ IF Found(existingTime)
           THEN /\ nextId' = id1
                /\ error' = [error EXCEPT ![a] = "duplicate"]
                /\ UNCHANGED <<available_times, service_availability, serviceAvailability,
                               displaced, added, toggled>>
           ELSE /\ nextId' = id1 + 1
                /\ error' = [error EXCEPT ![a] = ""]
                /\ service_availability' = service_availability \cup
                     {[id |-> id1, service_id |-> selectedService[a], date_id |-> dateId,
                       time |-> time, is_available |-> TRUE]}
                /\ available_times' = RemoveFromGeneralAvailability(available_times, dateId, time)
                /\ serviceAvailability' = [serviceAvailability EXCEPT ![a] =
                     FetchServiceAvailability(service_availability', dates1,
                                              selectedService[a], selectedDate[a])]
                /\ added' = added \cup {id1}
                /\ displaced' = IF available_times' # available_times
                                THEN displaced \cup {id1} ELSE displaced
                /\ toggled' = {}
  /\ UNCHANGED <<today, appointments, selectedService, selectedDate, adding, formVars, submitVars,
                 released>>

\* mutation: a general row that is not available is left in place
HandleAddTimeKeepsGeneral(a, time) ==
  /\ selectedService[a] # Empty
  /\ selectedDate[a] # Empty
  /\ LET existingDate == DateRows(selectedDate[a])
         dateId == IF Found(existingDate) THEN TheRow(existingDate).id ELSE nextId
         dates1 == IF Found(existingDate) THEN available_dates
                   ELSE available_dates \cup {[id |-> nextId, date |-> selectedDate[a]]}
         id1 == IF Found(existingDate) THEN nextId ELSE nextId + 1
         existingTime == {r \in service_availability :
                            /\ r.service_id = selectedService[a]
                            /\ r.date_id = dateId
                            /\ r.time = time}
     IN /\ ~Found(existingTime) => Cardinality(added) < MaxAdds
        /\ available_dates' = dates1
        /\ IF Found(existingTime)
           THEN /\ nextId' = id1
                /\ error' = [error EXCEPT ![a] = "duplicate"]
                /\ UNCHANGED <<available_times, service_availability, serviceAvailability,
                               displaced, added, toggled>>
           ELSE /\ nextId' = id1 + 1
                /\ error' = [error EXCEPT ![a] = ""]
                /\ service_availability' = service_availability \cup
                     {[id |-> id1, service_id |-> selectedService[a], date_id |-> dateId,
                       time |-> time, is_available |-> TRUE]}
                /\ available_times' =
                     IF \E g \in available_times :
                          g.date_id = dateId /\ g.time = time /\ ~g.is_available
                     THEN available_times
                     ELSE RemoveFromGeneralAvailability(available_times, dateId, time)
                /\ serviceAvailability' = [serviceAvailability EXCEPT ![a] =
                     FetchServiceAvailability(service_availability', dates1,
                                              selectedService[a], selectedDate[a])]
                /\ added' = added \cup {id1}
                /\ displaced' = IF available_times' # available_times
                                THEN displaced \cup {id1} ELSE displaced
                /\ toggled' = {}
  /\ UNCHANGED <<today, appointments, selectedService, selectedDate, adding, formVars, submitVars,
                 released>>

\* handleAddTime
HandleAddTime(a, time) ==
  /\ selectedService[a] # Empty
  /\ selectedDate[a] # Empty
  /\ LET existingDate == DateRows(selectedDate[a])
         dateId == IF Found(existingDate) THEN TheRow(existingDate).id ELSE nextId
         dates1 == IF Found(existingDate) THEN available_dates
                   ELSE available_dates \cup {[id |-> nextId, date |-> selectedDate[a]]}
         id1 == IF Found(existingDate) THEN nextId ELSE nextId + 1
         existingTime == {r \in service_availability :
                            /\ r.service_id = selectedService[a]
                            /\ r.date_id = dateId
                            /\ r.time = time}
     IN /\ ~Found(existingTime) => Cardinality(added) < MaxAdds
        /\ available_dates' = dates1
        /\ IF Found(existingTime)
           THEN /\ nextId' = id1
                /\ error' = [error EXCEPT ![a] = "duplicate"]
                /\ UNCHANGED <<available_times, service_availability, serviceAvailability,
                               displaced, added, toggled>>
           ELSE /\ nextId' = id1 + 1
                /\ error' = [error EXCEPT ![a] = ""]
                /\ service_availability' = service_availability \cup
                     {[id |-> id1, service_id |-> selectedService[a], date_id |-> dateId,
                       time |-> time, is_available |-> TRUE]}
                /\ available_times' = RemoveFromGeneralAvailability(available_times, dateId, time)
                /\ serviceAvailability' = [serviceAvailability EXCEPT ![a] =
                     FetchServiceAvailability(service_availability', dates1,
                                              selectedService[a], selectedDate[a])]
                /\ added' = added \cup {id1}
                /\ displaced' = IF available_times' # available_times
                                THEN displaced \cup {id1} ELSE displaced
                /\ toggled' = {}
  /\ UNCHANGED <<today, appointments, selectedService, selectedDate, adding, formVars, submitVars,
                 released>>

\* handleAddTime step by step: each store call is a step of its own, so that
\* the calls of two sessions interleave
Idle == [pc |-> "idle", service |-> Empty, date |-> Empty, time |-> Empty, dateId |-> Empty]

\* the lookup of the date entry
AddFindDate(a, time) ==
  /\ adding[a].pc = "idle"
  /\ selectedService[a] # Empty
  /\ selectedDate[a] # Empty
  /\ Cardinality(added) + Cardinality({b \in Admins : adding[b].pc # "idle"}) < MaxRaceAdds
  /\ LET existingDate == DateRows(selectedDate[a])
     IN adding' = [adding EXCEPT ![a] =
          [pc |-> IF Found(existingDate) THEN "findTime" ELSE "insertDate",
           service |-> selectedService[a], date |-> selectedDate[a], time |-> time,
           dateId |-> IF Found(existingDate) THEN TheRow(existingDate).id ELSE Empty]]
  /\ error' = [error EXCEPT ![a] = ""]
  /\ UNCHANGED <<today, storeVars, selectedService, selectedDate, serviceAvailability,
                 formVars, submitVars, histVars>>

\* the insert of a new date entry
AddInsertDate(a) ==
  /\ adding[a].pc = "insertDate"
  /\ available_dates' = available_dates \cup {[id |-> nextId, date |-> adding[a].date]}
  /\ nextId' = nextId + 1
  /\ adding' = [adding EXCEPT ![a].pc = "findTime", ![a].dateId = nextId]
  /\ UNCHANGED <<today, available_times, service_availability, appointments, selectedService,
                 selectedDate, serviceAvailability, error, formVars, submitVars, histVars>>

\* the lookup of an existing row of the service at the time
AddFindTime(a) ==
  /\ adding[a].pc = "findTime"
  /\ LET existingTime == {r \in service_availability :
                            /\ r.service_id = adding[a].service
                            /\ r.date_id = adding[a].dateId
                            /\ r.time = adding[a].time}
     IN IF Found(existingTime)
        THEN /\ error' = [error EXCEPT ![a] = "duplicate"]
             /\ adding' = [adding EXCEPT ![a] = Idle]
        ELSE /\ adding' = [adding EXCEPT ![a].pc = "insertTime"]
             /\ UNCHANGED error
  /\ UNCHANGED <<today, storeVars, selectedService, selectedDate, serviceAvailability,
                 formVars, submitVars, histVars>>

\* the insert of the row, the removal of the general row and the refresh
AddInsertTime(a) ==
  /\ adding[a].pc = "insertTime"
  /\ service_availability' = service_availability \cup
       {[id |-> nextId, service_id |-> adding[a].service, date_id |-> adding[a].dateId,
         time |-> adding[a].time, is_available |-> TRUE]}
  /\ nextId' = nextId + 1
  /\ available_times' =
       RemoveFromGeneralAvailability(available_times, adding[a].dateId, adding[a].time)
  /\ serviceAvailability' = [serviceAvailability EXCEPT ![a] =
       IF selectedService[a] # Empty /\ selectedDate[a] # Empty
       THEN FetchServiceAvailability(service_availability', available_dates,
                                     selectedService[a], selectedDate[a])
       ELSE serviceAvailability[a]]
  /\ added' = added \cup {nextId}
  /\ displaced' = IF available_times' # available_times
                  THEN displaced \cup {nextId} ELSE displaced
  /\ toggled' = {}
  /\ adding' = [adding EXCEPT ![a] = Idle]
  /\ UNCHANGED <<today, available_dates, appointments, selectedService, selectedDate, error,
                 formVars, submitVars, released>>

\* mutation: the general row is inserted without looking for an existing one
AddBackToGeneralAlways(at, date, timeValue, id) ==
  LET dateRows == DateRows(date)
  IN IF Found(dateRows)
     THEN at \cup {[id |-> id, date_id |-> TheRow(dateRows).id, time |-> timeValue,
                    is_available |-> TRUE]}
     ELSE at

\* mutation: the time is not added back to the general rows
AddBackToGeneralNever(at, date, timeValue, id) == at

\* handleRemoveTime, "Add back to general availability": the general table after it
AddBackToGeneral(at, date, timeValue, id) ==
  LET dateRows == DateRows(date)
      existingGeneral == {r \in at : r.date_id = TheRow(dateRows).id /\ r.time = timeValue}
  IN IF Found(dateRows) /\ ~Found(existingGeneral)
     THEN at \cup {[id |-> id, date_id |-> TheRow(dateRows).id, time |-> timeValue,
                    is_available |-> TRUE]}
     ELSE at

\* handleRemoveTime, confirmed by the operator
HandleRemoveTime(a, timeId, timeValue) ==
  /\ selectedService[a] # Empty
  /\ selectedDate[a] # Empty
  /\ \E t \in serviceAvailability[a] : t.id = timeId /\ t.time = timeValue
  /\ LET sa1 == {r \in service_availability : r.id # timeId}
         at1 == AddBackToGeneral(available_times, selectedDate[a], timeValue, nextId)
     IN /\ service_availability' = sa1
        /\ available_times' = at1
        /\ nextId' = IF at1 # available_times THEN nextId + 1 ELSE nextId
        /\ serviceAvailability' = [serviceAvailability EXCEPT ![a] =
             FetchServiceAvailability(sa1, available_dates, selectedService[a], selectedDate[a])]
  /\ released' = released \cup
       {[id |-> timeId, date |-> selectedDate[a], time |-> timeValue,
         n |-> 1 + Cardinality({e \in released : e.id = timeId /\ e.n > 0}),
         displaced |-> timeId \in displaced]}
  /\ displaced' = displaced \ {timeId}
  /\ toggled' = {}
  /\ error' = [error EXCEPT ![a] = ""]
  /\ UNCHANGED <<today, available_dates, appointments, selectedService, selectedDate, adding,
                 formVars, submitVars, added>>

\* mutation: the removal goes on although the operator declined
HandleRemoveTimeUnconfirmed(a, timeId, timeValue) ==
  /\ selectedService[a] # Empty
  /\ selectedDate[a] # Empty
  /\ \E t \in serviceAvailability[a] : t.id = timeId /\ t.time = timeValue
  /\ ~\E e \in released : e.id = timeId /\ e.n = 0
  /\ LET sa1 == {r \in service_availability : r.id # timeId}
         at1 == AddBackToGeneral(available_times, selectedDate[a], timeValue, nextId)
     IN /\ service_availability' = sa1
        /\ available_times' = at1
        /\ nextId' = IF at1 # available_times THEN nextId + 1 ELSE nextId
        /\ serviceAvailability' = [serviceAvailability EXCEPT ![a] =
             FetchServiceAvailability(sa1, available_dates, selectedService[a], selectedDate[a])]
  /\ released' = released \cup
       {[id |-> timeId, date |-> selectedDate[a], time |-> timeValue, n |-> 0,
         displaced |-> timeId \in displaced]}
  /\ UNCHANGED <<today, available_dates, appointments, selectedService, selectedDate, error, adding,
                 formVars, submitVars, added, displaced, toggled>>

\* handleRemoveTime, declined by the operator in the confirm dialog
HandleRemoveTimeDeclined(a, timeId, timeValue) ==
  /\ selectedService[a] # Empty
  /\ selectedDate[a] # Empty
  /\ \E t \in serviceAvailability[a] : t.id = timeId /\ t.time = timeValue
  /\ ~\E e \in released : e.id = timeId /\ e.n = 0
  /\ released' = released \cup
       {[id |-> timeId, date |-> selectedDate[a], time |-> timeValue, n |-> 0,
         displaced |-> timeId \in displaced]}
  /\ UNCHANGED <<today, storeVars, adminVars, formVars, submitVars, added, displaced, toggled>>

\* mutation: the update matches the rows by time instead of by id
HandleToggleAvailabilityByTime(a, timeId, currentAvailability) ==
  /\ selectedService[a] # Empty
  /\ selectedDate[a] # Empty
  /\ \E t \in serviceAvailability[a] : t.id = timeId /\ t.is_available = currentAvailability
  /\ LET times == {r.time : r \in {q \in service_availability : q.id = timeId}}
         sa1 == {IF r.time \in times THEN [r EXCEPT !.is_available = ~currentAvailability]
                 ELSE r : r \in service_availability}
     IN /\ service_availability' = sa1
        /\ serviceAvailability' = [serviceAvailability EXCEPT ![a] =
             FetchServiceAvailability(sa1, available_dates, selectedService[a], selectedDate[a])]
  /\ error' = [error EXCEPT ![a] = ""]
  /\ toggled' = {[admin |-> a, id |-> timeId, was |-> r.is_available] :
                   r \in {q \in service_availability : q.id = timeId}}
  /\ UNCHANGED <<today, nextId, available_dates, available_times, appointments,
                 selectedService, selectedDate, adding, formVars, submitVars, added, displaced,
                 released>>

\* handleToggleAvailability
HandleToggleAvailability(a, timeId, currentAvailability) ==
  /\ selectedService[a] # Empty
  /\ selectedDate[a] # Empty
  /\ \E t \in serviceAvailability[a] : t.id = timeId /\ t.is_available = currentAvailability
  /\ LET sa1 == {IF r.id = timeId THEN [r EXCEPT !.is_available = ~currentAvailability] ELSE r :
                   r \in service_availability}
     IN /\ service_availability' = sa1
        /\ serviceAvailability' = [serviceAvailability EXCEPT ![a] =
             FetchServiceAvailability(sa1, available_dates, selectedService[a], selectedDate[a])]
  /\ error' = [error EXCEPT ![a] = ""]
  /\ toggled' = {[admin |-> a, id |-> timeId, was |-> r.is_available] :
                   r \in {q \in service_availability : q.id = timeId}}
  /\ UNCHANGED <<today, nextId, available_dates, available_times, appointments,
                 selectedService, selectedDate, adding, formVars, submitVars, added, displaced,
                 released>>

----------------------------------------------------------------------------
(* AppointmentForm: availability resolution *)

\* mutation: only the available rows count as configuration
HasConfigAvailableOnly(serviceId) ==
  \E r \in service_availability : r.service_id = serviceId /\ r.is_available

\* service_availability ... .eq('service_id', serviceId).limit(1), length > 0
HasConfig(serviceId) == \E r \in service_availability : r.service_id = serviceId

\* mutation: the dates are not filtered against today
FetchAvailableDatesForServiceUnfiltered(serviceId) ==
  LET rows == {r \in service_availability :
                 /\ r.service_id = serviceId
                 /\ r.is_available
                 /\ \E d \in available_dates : d.id = r.date_id}
      rowSeq == OrderById(rows)
      serviceDates == [i \in DOMAIN rowSeq |-> DateOf(rowSeq[i].date_id)]
  IN SortAsc(serviceDates)

\* fetchAvailableDatesForService: the value passed to setAvailableDates
FetchAvailableDatesForService(serviceId) ==
  LET rows == {r \in service_availability :
                 /\ r.service_id = serviceId
                 /\ r.is_available
                 /\ \E d \in available_dates : d.id = r.date_id}
      rowSeq == OrderById(rows)
      serviceDates == [i \in DOMAIN rowSeq |-> DateOf(rowSeq[i].date_id)]
      futureDates == SelectSeq(serviceDates, LAMBDA date : date >= today)
  IN SortAsc(futureDates)

\* mutation: only the dates that still have an available general time
FetchGeneralAvailableDatesWithTimes ==
  LET rowSeq == OrderById({d \in available_dates :
                    \E g \in available_times : g.date_id = d.id /\ g.is_available})
      generalDates == [i \in DOMAIN rowSeq |-> rowSeq[i].date]
      futureDates == SelectSeq(generalDates, LAMBDA date : date >= today)
  IN SortAsc(futureDates)

\* fetchGeneralAvailableDates: the value passed to setAvailableDates
FetchGeneralAvailableDates ==
  LET rowSeq == OrderById(available_dates)
      generalDates == [i \in DOMAIN rowSeq |-> rowSeq[i].date]
      futureDates == SelectSeq(generalDates, LAMBDA date : date >= today)
  IN SortAsc(futureDates)

\* datesFor: the catalog checkServiceConfiguration stores for the service
DatesFor(serviceId) ==
  IF HasConfig(serviceId) THEN FetchAvailableDatesForService(serviceId)
  ELSE FetchGeneralAvailableDates

\* mutation: the service-specific times of the date are not excluded
GeneralTimesNoExclusion(dateId) ==
  SelectTimeAvail(OrderByTime({r \in available_times : r.date_id = dateId /\ r.is_available}))

\* mutation: the general rows are not filtered on is_available
GeneralTimesAnyFlag(dateId) ==
  LET generalTimesData == SelectTimeAvail(OrderByTime(
        {r \in available_times : r.date_id = dateId}))
      serviceSpecificTimes == {r.time : r \in {q \in service_availability : q.date_id = dateId}}
  IN SelectSeq(generalTimesData, LAMBDA time : time.time \notin serviceSpecificTimes)

\* the general-tier listing shared by fetchServiceSpecificTimes and fetchAvailableTimes
GeneralTimes(dateId) ==
  LET generalTimesData == SelectTimeAvail(OrderByTime(
        {r \in available_times : r.date_id = dateId /\ r.is_available}))
      serviceSpecificTimes == {r.time : r \in {q \in service_availability : q.date_id = dateId}}
  IN SelectSeq(generalTimesData, LAMBDA time : time.time \notin serviceSpecificTimes)

\* mutation: the service-specific rows are not filtered on is_available
FetchServiceSpecificTimesAnyFlag(date, serviceId) ==
  LET dateRows == DateRows(date)
  IN IF ~Found(dateRows) THEN <<>>
     ELSE IF HasConfig(serviceId)
          THEN SelectTimeAvail(OrderByTime(
                 {r \in service_availability :
                    /\ r.service_id = serviceId
                    /\ r.date_id = TheRow(dateRows).id}))
          ELSE GeneralTimes(TheRow(dateRows).id)

\* mutation: the configuration check looks at the rows of the date only
FetchServiceSpecificTimesPerDate(date, serviceId) ==
  LET dateRows == DateRows(date)
  IN IF ~Found(dateRows) THEN <<>>
     ELSE IF \E r \in service_availability :
                r.service_id = serviceId /\ r.date_id = TheRow(dateRows).id
          THEN SelectTimeAvail(OrderByTime(
                 {r \in service_availability :
                    /\ r.service_id = serviceId
                    /\ r.date_id = TheRow(dateRows).id
                    /\ r.is_available}))
          ELSE GeneralTimes(TheRow(dateRows).id)

\* fetchServiceSpecificTimes: the value passed to setAvailableTimes (slotsFor)
FetchServiceSpecificTimes(date, serviceId) ==
  LET dateRows == DateRows(date)
  IN IF ~Found(dateRows) THEN <<>>
     ELSE IF HasConfig(serviceId)
          THEN SelectTimeAvail(OrderByTime(
                 {r \in service_availability :
                    /\ r.service_id = serviceId
                    /\ r.date_id = TheRow(dateRows).id
                    /\ r.is_available}))
          ELSE GeneralTimes(TheRow(dateRows).id)

\* fetchAvailableTimes: the listing when no service is selected
FetchAvailableTimes(date) ==
  LET dateRows == DateRows(date)
  IN IF ~Found(dateRows) THEN <<>> ELSE GeneralTimes(TheRow(dateRows).id)

TimesOf(slots) == {slots[i].time : i \in DOMAIN slots}

\* .limit(100): the rows the suggestion query returns; the bounds keep a
\* service below the limit, so that all its rows are returned
Limit(rows) ==
  IF Cardinality(rows) <= ScanLimit THEN rows
  ELSE CHOOSE S \in SUBSET rows : Cardinality(S) = ScanLimit

\* generateServiceSuggestion: the value of serviceSuggestion after the call.
\* hasConfiguration is the hasServiceConfiguration of the render whose effect
\* started the check, current the suggestion shown before the call.
GenerateServiceSuggestion(serviceId, hasConfiguration, current) ==
  IF ~hasConfiguration THEN current
  ELSE LET serviceAvailabilityData == Limit(
             {r \in service_availability :
                /\ r.service_id = serviceId
                /\ r.is_available
                /\ \E d \in available_dates : d.id = r.date_id /\ d.date >= today})
       IN IF serviceAvailabilityData # {}
          THEN LET earliestSlot == CHOOSE r \in serviceAvailabilityData :
                     \A q \in serviceAvailabilityData :
                       \/ DateOf(r.date_id) < DateOf(q.date_id)
                       \/ DateOf(r.date_id) = DateOf(q.date_id) /\ r.time <= q.time
               IN <<"slot", serviceId, DateOf(earliestSlot.date_id), earliestSlot.time>>
          ELSE <<"choose", serviceId, Empty, Empty>>

\* checkServiceConfiguration: the suggestion it leaves
SuggestionAfterCheck(serviceId, hasConfig, hasConfiguration, current) ==
  IF hasConfig THEN GenerateServiceSuggestion(serviceId, hasConfiguration, current)
  ELSE <<>>

\* the render shows the suggestion box
SuggestionShown(c) == serviceSuggestion[c] # <<>> /\ hasServiceConfiguration[c]

SeqToSet(s) == {s[i] : i \in DOMAIN s}

\* handleServiceChange, with the two effects it triggers
HandleServiceChange(c, serviceId) ==
  /\ pc[c] = "form"
  /\ formData[c].service # serviceId
  /\ formData' = [formData EXCEPT ![c].service = serviceId, ![c].date = Empty, ![c].time = Empty]
  /\ hasServiceConfiguration' = [hasServiceConfiguration EXCEPT ![c] = HasConfig(serviceId)]
  /\ availableDates' = [availableDates EXCEPT ![c] = DatesFor(serviceId)]
  /\ availableTimes' = [availableTimes EXCEPT ![c] = <<>>]
  /\ serviceSuggestion' = [serviceSuggestion EXCEPT ![c] =
       SuggestionAfterCheck(serviceId, HasConfig(serviceId), hasServiceConfiguration[c],
                            serviceSuggestion[c])]
  /\ UNCHANGED <<today, storeVars, adminVars, pending, fetching, submitVars, histVars>>

\* DateSelector's onDateSelect, with the effect it triggers
OnDateSelect(c, date) ==
  /\ pc[c] = "form"
  /\ date \in SeqToSet(availableDates[c])
  /\ formData[c].date # date
  /\ formData' = [formData EXCEPT ![c].date = date, ![c].time = Empty]
  /\ availableTimes' = [availableTimes EXCEPT ![c] =
       IF formData[c].service # Empty
       THEN FetchServiceSpecificTimes(date, formData[c].service)
       ELSE FetchAvailableTimes(date)]
  /\ UNCHANGED <<today, storeVars, adminVars, availableDates, hasServiceConfiguration,
                 serviceSuggestion, pending, fetching, submitVars, histVars>>

HandleTimeSelect(c, time) ==
  /\ pc[c] = "form"
  /\ formData[c].date # Empty
  /\ time \in TimesOf(availableTimes[c])
  /\ formData[c].time # time
  /\ formData' = [formData EXCEPT ![c].time = time]
  /\ UNCHANGED <<today, storeVars, adminVars, availableTimes, availableDates,
                 hasServiceConfiguration, serviceSuggestion, pending, fetching, submitVars, histVars>>

\* handleServiceChange alone: the render it causes starts checkServiceConfiguration,
\* which runs on while the session goes on selecting
SelectService(c, serviceId) ==
  /\ pc[c] = "form"
  /\ formData[c].service # serviceId
  /\ formData' = [formData EXCEPT ![c].service = serviceId, ![c].date = Empty, ![c].time = Empty]
  /\ availableTimes' = [availableTimes EXCEPT ![c] = <<>>]
  /\ pending' = [pending EXCEPT ![c] = pending[c] \cup
       {[service |-> serviceId, hasConfiguration |-> hasServiceConfiguration[c]]}]
  /\ UNCHANGED <<today, storeVars, adminVars, availableDates, hasServiceConfiguration,
                 serviceSuggestion, fetching, submitVars, histVars>>

\* a running checkServiceConfiguration completes
CheckServiceConfiguration(c, check) ==
  /\ check \in pending[c]
  /\ hasServiceConfiguration' =
       [hasServiceConfiguration EXCEPT ![c] = HasConfig(check.service)]
  /\ availableDates' = [availableDates EXCEPT ![c] = DatesFor(check.service)]
  /\ serviceSuggestion' = [serviceSuggestion EXCEPT ![c] =
       SuggestionAfterCheck(check.service, HasConfig(check.service), check.hasConfiguration,
                            serviceSuggestion[c])]
  /\ pending' = [pending EXCEPT ![c] = pending[c] \ {check}]
  /\ UNCHANGED <<today, storeVars, adminVars, formData, availableTimes, fetching, submitVars,
                 histVars>>

\* onDateSelect alone: the render it causes starts fetchServiceSpecificTimes,
\* which runs on while the session goes on selecting
SelectDate(c, date) ==
  /\ pc[c] = "form"
  /\ formData[c].service # Empty
  /\ date \in SeqToSet(availableDates[c])
  /\ formData[c].date # date
  /\ formData' = [formData EXCEPT ![c].date = date, ![c].time = Empty]
  /\ fetching' = [fetching EXCEPT ![c] = fetching[c] \cup
       {[service |-> formData[c].service, date |-> date]}]
  /\ UNCHANGED <<today, storeVars, adminVars, availableTimes, availableDates,
                 hasServiceConfiguration, serviceSuggestion, pending, submitVars, histVars>>

\* a running fetchServiceSpecificTimes completes
FetchTimesCompletes(c, fetch) ==
  /\ fetch \in fetching[c]
  /\ availableTimes' = [availableTimes EXCEPT ![c] =
       FetchServiceSpecificTimes(fetch.date, fetch.service)]
  /\ fetching' = [fetching EXCEPT ![c] = fetching[c] \ {fetch}]
  /\ UNCHANGED <<today, storeVars, adminVars, formData, availableDates, hasServiceConfiguration,
                 serviceSuggestion, pending, submitVars, histVars>>

\* the name input's onChange
HandleNameChange(c, name) ==
  /\ pc[c] = "form"
  /\ formData[c].name # name
  /\ formData' = [formData EXCEPT ![c].name = name]
  /\ UNCHANGED <<today, storeVars, adminVars, availableTimes, availableDates,
                 hasServiceConfiguration, serviceSuggestion, pending, fetching, submitVars, histVars>>

----------------------------------------------------------------------------
(* AppointmentForm: availability resolution when store queries fail.  A failed
   query resolves to {data: null, error}; the code reads data only. *)

\* the queries of checkServiceConfiguration and of fetchServiceSpecificTimes
DateQueries == {"config", "serviceDates", "generalDates"}
SlotQueries == {"date", "config", "serviceTimes", "generalTimes", "allServiceTimes"}

\* checkServiceConfiguration's hasConfig when the queries in failed fail
HasConfigFailing(serviceId, failed) == "config" \notin failed /\ HasConfig(serviceId)

\* checkServiceConfiguration: the catalog stored when the queries in failed fail
DatesForFailing(serviceId, failed) ==
  IF HasConfigFailing(serviceId, failed)
  THEN IF "serviceDates" \in failed THEN <<>> ELSE FetchAvailableDatesForService(serviceId)
  ELSE IF "generalDates" \in failed THEN <<>> ELSE FetchGeneralAvailableDates

\* fetchServiceSpecificTimes: the listing stored when the queries in failed fail
FetchServiceSpecificTimesFailing(date, serviceId, failed) ==
  LET dateRows == DateRows(date)
  IN IF "date" \in failed \/ ~Found(dateRows) THEN <<>>
     ELSE IF HasConfigFailing(serviceId, failed)
          THEN IF "serviceTimes" \in failed THEN <<>>
               ELSE SelectTimeAvail(OrderByTime(
                      {r \in service_availability :
                         /\ r.service_id = serviceId
                         /\ r.date_id = TheRow(dateRows).id
                         /\ r.is_available}))
          ELSE IF "generalTimes" \in failed THEN <<>>
               ELSE IF "allServiceTimes" \in failed
                    THEN SelectTimeAvail(OrderByTime(
                           {r \in available_times :
                              r.date_id = TheRow(dateRows).id /\ r.is_available}))
                    ELSE GeneralTimes(TheRow(dateRows).id)

\* handleServiceChange and its effects, with at most one failing query
HandleServiceChangeFailing(c, serviceId, failed) ==
  /\ pc[c] = "form"
  /\ formData[c].service # serviceId
  /\ formData' = [formData EXCEPT ![c].service = serviceId, ![c].date = Empty, ![c].time = Empty]
  /\ hasServiceConfiguration' =
       [hasServiceConfiguration EXCEPT ![c] = HasConfigFailing(serviceId, failed)]
  /\ availableDates' = [availableDates EXCEPT ![c] = DatesForFailing(serviceId, failed)]
  /\ availableTimes' = [availableTimes EXCEPT ![c] = <<>>]
  /\ serviceSuggestion' = [serviceSuggestion EXCEPT ![c] =
       SuggestionAfterCheck(serviceId, HasConfigFailing(serviceId, failed),
                            hasServiceConfiguration[c], serviceSuggestion[c])]
  /\ UNCHANGED <<today, storeVars, adminVars, pending, fetching, submitVars, histVars>>

\* onDateSelect and its effect, with at most one failing query
OnDateSelectFailing(c, date, failed) ==
  /\ pc[c] = "form"
  /\ date \in SeqToSet(availableDates[c])
  /\ formData[c].date # date
  /\ formData' = [formData EXCEPT ![c].date = date, ![c].time = Empty]
  /\ availableTimes' = [availableTimes EXCEPT ![c] =
       IF formData[c].service # Empty
       THEN FetchServiceSpecificTimesFailing(date, formData[c].service, failed)
       ELSE FetchAvailableTimes(date)]
  /\ UNCHANGED <<today, storeVars, adminVars, availableDates, hasServiceConfiguration,
                 serviceSuggestion, pending, fetching, submitVars, histVars>>

----------------------------------------------------------------------------
(* AppointmentForm: handleSubmit, one action per store round trip *)

\* mutation: the client name is not validated
IsFormValidWithoutName(c) ==
  formData[c].service # Empty /\ formData[c].date # Empty /\ formData[c].time # Empty

\* the validation at the head of handleSubmit
IsFormValid(c) ==
  /\ formData[c].name # Empty
  /\ formData[c].service # Empty
  /\ formData[c].date # Empty
  /\ formData[c].time # Empty

\* handleSubmit with a field missing: alert and return
SubmitInvalid(c) ==
  /\ pc[c] = "form"
  /\ ~IsFormValid(c)
  /\ outcome[c] # "invalid"
  /\ outcome' = [outcome EXCEPT ![c] = "invalid"]
  /\ UNCHANGED <<today, storeVars, adminVars, formVars, pc, dateData, slotData, offered,
                 histVars>>

\* appointments.insert(...).select().single() succeeds
SubmitInsert(c) ==
  /\ pc[c] = "form"
  /\ IsFormValid(c)
  /\ appointments' = appointments \cup
       {[id |-> c, client_name |-> formData[c].name, service_id |-> formData[c].service,
         date |-> formData[c].date, time |-> formData[c].time, status |-> "pending"]}
  /\ pc' = [pc EXCEPT ![c] = "inserted"]
  /\ outcome' = [outcome EXCEPT ![c] = "none"]
  /\ offered' = [offered EXCEPT ![c] = formData[c].time \in
       TimesOf(FetchServiceSpecificTimes(formData[c].date, formData[c].service))]
  /\ UNCHANGED <<today, nextId, available_dates, available_times, service_availability,
                 adminVars, formVars, dateData, slotData, histVars>>

\* mutation: the failed insert is logged and handleSubmit goes on
SubmitInsertErrorIgnored(c) ==
  /\ pc[c] = "form"
  /\ IsFormValid(c)
  /\ pc' = [pc EXCEPT ![c] = "inserted"]
  /\ UNCHANGED <<today, storeVars, adminVars, formVars, outcome, dateData, slotData, offered,
                 histVars>>

\* the insert returns appointmentError: alert, no callback
SubmitInsertError(c) ==
  /\ pc[c] = "form"
  /\ IsFormValid(c)
  /\ outcome[c] # "error"
  /\ outcome' = [outcome EXCEPT ![c] = "error"]
  /\ UNCHANGED <<today, storeVars, adminVars, formVars, pc, dateData, slotData, offered,
                 histVars>>

\* available_dates ... .eq('date', formData.date).maybeSingle()
SubmitFindDate(c) ==
  /\ pc[c] = "inserted"
  /\ LET rows == DateRows(formData[c].date)
     IN IF Found(rows)
        THEN /\ dateData' = [dateData EXCEPT ![c] = TheRow(rows).id]
             /\ pc' = [pc EXCEPT ![c] = "gotDate"]
             /\ UNCHANGED outcome
        ELSE /\ pc' = [pc EXCEPT ![c] = "done"]
             /\ outcome' = [outcome EXCEPT ![c] = "submitted"]
             /\ UNCHANGED dateData
  /\ UNCHANGED <<today, storeVars, adminVars, formVars, slotData, offered, histVars>>

\* service_availability ... .eq(service_id).eq(date_id).eq(time).maybeSingle()
SubmitFindSlot(c) ==
  /\ pc[c] = "gotDate"
  /\ LET rows == {r \in service_availability :
                    /\ r.service_id = formData[c].service
                    /\ r.date_id = dateData[c]
                    /\ r.time = formData[c].time}
     IN slotData' = [slotData EXCEPT ![c] = IF Found(rows) THEN TheRow(rows).id ELSE Empty]
  /\ pc' = [pc EXCEPT ![c] = "gotSlot"]
  /\ UNCHANGED <<today, storeVars, adminVars, formVars, dateData, outcome, offered, histVars>>

\* the update of the service-specific row, or the fallback to the general rows
MarkUnavailableService(sa, id) ==
  {IF r.id = id THEN [r EXCEPT !.is_available = FALSE] ELSE r : r \in sa}

MarkUnavailableGeneral(at, dateId, time) ==
  {IF r.date_id = dateId /\ r.time = time THEN [r EXCEPT !.is_available = FALSE] ELSE r :
     r \in at}

\* the update, then onSubmit(formData)
SubmitUpdate(c) ==
  /\ pc[c] = "gotSlot"
  /\ IF slotData[c] # Empty
     THEN /\ service_availability' = MarkUnavailableService(service_availability, slotData[c])
          /\ UNCHANGED available_times
     ELSE /\ available_times' =
               MarkUnavailableGeneral(available_times, dateData[c], formData[c].time)
          /\ UNCHANGED service_availability
  /\ pc' = [pc EXCEPT ![c] = "done"]
  /\ outcome' = [outcome EXCEPT ![c] = "submitted"]
  /\ toggled' = {}
  /\ UNCHANGED <<today, nextId, available_dates, appointments, adminVars, formVars,
                 dateData, slotData, offered, added, displaced, released>>

----------------------------------------------------------------------------

\* every session starts with nothing selected
InitSessions ==
  /\ selectedService = [a \in Admins |-> Empty]
  /\ selectedDate = [a \in Admins |-> Empty]
  /\ serviceAvailability = [a \in Admins |-> {}]
  /\ error = [a \in Admins |-> ""]
  /\ adding = [a \in Admins |-> Idle]
  /\ formData = [c \in Clients |->
                   [name |-> Empty, service |-> Empty, date |-> Empty, time |-> Empty]]
  /\ availableTimes = [c \in Clients |-> <<>>]
  /\ availableDates = [c \in Clients |-> <<>>]
  /\ hasServiceConfiguration = [c \in Clients |-> FALSE]
  /\ serviceSuggestion = [c \in Clients |-> <<>>]
  /\ pending = [c \in Clients |-> {}]
  /\ fetching = [c \in Clients |-> {}]
  /\ pc = [c \in Clients |-> "form"]
  /\ dateData = [c \in Clients |-> Empty]
  /\ slotData = [c \in Clients |-> Empty]
  /\ outcome = [c \in Clients |-> "none"]
  /\ offered = [c \in Clients |-> FALSE]
  /\ added = {}
  /\ released = {}
  /\ toggled = {}

\* The store the sessions find: the first date is registered with a general
\* row for every time; at most one service-specific time was added before,
\* which removed the general row of that time.
Init ==
  /\ today = 1
  /\ nextId = FirstId + 1
  /\ available_dates = {[id |-> 1, date |-> 1]}
  /\ appointments = {}
  /\ \E g \in [Times -> BOOLEAN], pre \in {<<>>} \cup (Services \X Times) :
       /\ service_availability =
            IF pre = <<>> THEN {}
            ELSE {[id |-> FirstId, service_id |-> pre[1], date_id |-> 1, time |-> pre[2],
                   is_available |-> TRUE]}
       /\ available_times =
            {[id |-> 1 + t, date_id |-> 1, time |-> t, is_available |-> g[t]] :
               t \in {u \in Times : pre = <<>> \/ pre[2] # u}}
       /\ displaced = IF pre = <<>> THEN {} ELSE {FirstId}
  /\ InitSessions

\* Any store without duplicate rows, of at most MaxSlots service-specific and
\* MaxGeneral general rows, on any day: the inputs of the resolution queries.
SlotKeys(dateSet) == Services \X dateSet \X Times
GeneralKeys(dateSet) == dateSet \X Times
SlotId(k) == NumDates + ((k[1] - 1) * NumDates + (k[2] - 1)) * NumTimes + k[3]
GeneralId(k) == NumDates + NumServices * NumDates * NumTimes + (k[1] - 1) * NumTimes + k[2]

InitQuery ==
  /\ today \in Dates
  /\ nextId = GeneralId(<<NumDates, NumTimes>>) + 1
  /\ appointments = {}
  /\ \E dateSet \in {Dates, Dates \ {NumDates}} :
       /\ available_dates = {[id |-> d, date |-> d] : d \in dateSet}
       /\ \E S \in SUBSET SlotKeys(dateSet) :
            /\ Cardinality(S) <= MaxSlots
            /\ \E open \in SUBSET S :
                 service_availability =
                   {[id |-> SlotId(k), service_id |-> k[1], date_id |-> k[2], time |-> k[3],
                     is_available |-> k \in open] : k \in S}
       /\ \E G \in SUBSET GeneralKeys(dateSet) :
            /\ Cardinality(G) <= MaxGeneral
            /\ \E open \in SUBSET G :
                 available_times =
                   {[id |-> GeneralId(k), date_id |-> k[1], time |-> k[2],
                     is_available |-> k \in open] : k \in G}
  /\ displaced = {}
  /\ InitSessions

AdminNext(a) ==
  \/ \E s \in Services : SetSelectedService(a, s)
  \/ \E d \in Dates : SetSelectedDate(a, d)
  \/ \E t \in Times : HandleAddTime(a, t)
  \/ \E t \in serviceAvailability[a] : HandleRemoveTime(a, t.id, t.time)
  \/ \E t \in serviceAvailability[a] : HandleToggleAvailability(a, t.id, t.is_available)

ClientNext(c) ==
  \/ \E s \in Services : HandleServiceChange(c, s)
  \/ \E d \in Dates : OnDateSelect(c, d)
  \/ \E t \in Times : HandleTimeSelect(c, t)
  \/ \E n \in {Empty, Typed} : HandleNameChange(c, n)
  \/ SubmitInvalid(c)
  \/ SubmitInsert(c)
  \/ SubmitInsertError(c)
  \/ SubmitFindDate(c)
  \/ SubmitFindSlot(c)
  \/ SubmitUpdate(c)

BrowseNext(c) ==
  \/ \E s \in Services : HandleServiceChange(c, s)
  \/ \E d \in Dates : OnDateSelect(c, d)
  \/ \E t \in Times : HandleTimeSelect(c, t)

\* one booking session and one manager session on the shared store
Next ==
  \/ AdminNext("a1")
  \/ ClientNext("c1")

Spec == Init /\ [][Next]_vars

\* two manager sessions, no booking
NextAdmins == \E a \in Admins : AdminNext(a)

SpecAdmins == Init /\ [][NextAdmins]_vars

\* two manager sessions adding times, store call by store call
NextAddRace ==
  \E a \in Admins :
    \/ \E s \in Services : SetSelectedService(a, s)
    \/ \E d \in Dates : SetSelectedDate(a, d)
    \/ \E t \in Times : AddFindDate(a, t)
    \/ AddInsertDate(a)
    \/ AddFindTime(a)
    \/ AddInsertTime(a)

SpecAddRace == Init /\ [][NextAddRace]_vars

\* one manager session, no booking
NextManager == AdminNext("a1")

SpecManager == Init /\ [][NextManager]_vars

\* one booking session whose time fetches run on while it goes on selecting
NextFetch ==
  \/ \E s \in Services : HandleServiceChange("c1", s)
  \/ \E d \in Dates : SelectDate("c1", d)
  \/ \E fetch \in fetching["c1"] : FetchTimesCompletes("c1", fetch)

SpecFetch == InitQuery /\ [][NextFetch]_vars

\* one manager session whose operator may decline the confirm dialog
NextConfirm ==
  \/ AdminNext("a1")
  \/ \E t \in serviceAvailability["a1"] : HandleRemoveTimeDeclined("a1", t.id, t.time)

SpecConfirm == Init /\ [][NextConfirm]_vars

\* one booking session resolving dates and times while store queries may fail
NextFail ==
  \/ \E s \in Services, q \in DateQueries :
       HandleServiceChangeFailing("c1", s, {q}) \/ HandleServiceChangeFailing("c1", s, {})
  \/ \E d \in Dates, q \in SlotQueries :
       OnDateSelectFailing("c1", d, {q}) \/ OnDateSelectFailing("c1", d, {})
  \/ \E t \in Times : HandleTimeSelect("c1", t)

SpecFail == InitQuery /\ [][NextFail]_vars

\* one booking session changing its service while earlier checks still run
NextSuggest ==
  \/ \E s \in Services : SelectService("c1", s)
  \/ \E check \in pending["c1"] : CheckServiceConfiguration("c1", check)

SpecSuggest == InitQuery /\ [][NextSuggest]_vars

\* one booking session, no manager
NextBook == ClientNext("c1")

SpecBook == Init /\ [][NextBook]_vars

\* two booking sessions, no manager
NextRace == \E c \in Clients : ClientNext(c)

SpecRace == Init /\ [][NextRace]_vars

\* one booking session resolving dates and times on a store that does not change
NextQuery == BrowseNext("c1")

SpecQuery == InitQuery /\ [][NextQuery]_vars

----------------------------------------------------------------------------
(* Properties *)

SameSlot(x, y) == x.service_id = y.service_id /\ x.date = y.date /\ x.time = y.time

\* how often a listing offers the time
Count(slots, time) == Cardinality({i \in DOMAIN slots : slots[i].time = time})

Ascending(slots) ==
  \A i, j \in DOMAIN slots : i < j => slots[i].time <= slots[j].time

\* the step of handleSubmit that ends with onSubmit(formData)
BookCompletes(c) == pc[c] # "done" /\ pc'[c] = "done"

\* C1: two bookings of the identical (service, date, time) never leave two
\* Appointment rows for the one slot.
C1_NoDoubleBooking ==
  \A x, y \in appointments : SameSlot(x, y) => x = y

\* C2: when a booking completes, exactly one underlying slot record stands
\* unavailable for it: the ServiceSlot row of the exact (service, date, time)
\* if one exists, otherwise the GeneralSlot row of (date, time); never none,
\* never both.
C2_ExactlyOneFlipped ==
  [][\A c \in Clients :
       BookCompletes(c) =>
         LET dateIds == {d.id : d \in {q \in available_dates' : q.date = formData[c].date}}
             S == {r \in service_availability' :
                     /\ r.service_id = formData[c].service
                     /\ r.date_id \in dateIds
                     /\ r.time = formData[c].time}
             G == {r \in available_times' :
                     r.date_id \in dateIds /\ r.time = formData[c].time}
         IN IF S # {}
            THEN /\ Cardinality(S) = 1
                 /\ \A r \in S : ~r.is_available
                 /\ available_times' = available_times
            ELSE /\ Cardinality(G) = 1
                 /\ \A r \in G : ~r.is_available]_vars

\* C3: a time that has a ServiceSlot row on a date is never listed by the
\* general tier for that date, for any service without configuration.
C3_TierExclusivity ==
  \A r \in service_availability :
    /\ r.time \notin TimesOf(FetchAvailableTimes(DateOf(r.date_id)))
    /\ \A s \in Services :
         ~HasConfig(s) => r.time \notin TimesOf(FetchServiceSpecificTimes(DateOf(r.date_id), s))

\* the form lists the general tier of a date on which an open general row
\* shares its time with a service-specific row
C3_Witness ==
  /\ formData["c1"].service # Empty
  /\ formData["c1"].date # Empty
  /\ ~HasConfig(formData["c1"].service)
  /\ availableTimes["c1"] # <<>>
  /\ availableTimes["c1"] = FetchServiceSpecificTimes(formData["c1"].date, formData["c1"].service)
  /\ \E r \in service_availability, g \in available_times :
       /\ DateOf(r.date_id) = formData["c1"].date
       /\ g.date_id = r.date_id
       /\ g.time = r.time
       /\ g.is_available
       /\ r.time \notin TimesOf(availableTimes["c1"])

C5_BookedNotListed ==
  [][\A c \in Clients :
       (BookCompletes(c) /\ offered[c]) =>
         /\ \E ap \in appointments' :
              /\ ap.id = c
              /\ ap.status = "pending"
              /\ SameSlot(ap, [service_id |-> formData[c].service, date |-> formData[c].date,
                               time |-> formData[c].time])
         /\ formData[c].time \notin
              TimesOf(FetchServiceSpecificTimes(formData[c].date, formData[c].service))']_vars

\* C6: for a service without ServiceSlot rows and a registered date, slotsFor is
\* the available general rows of the date whose time no ServiceSlot row of the
\* date has, ascending by time.
C6_GeneralTier ==
  \A s \in Services, d \in Dates :
    (~HasConfig(s) /\ DateRows(d) # {}) =>
      LET id == TheRow(DateRows(d)).id
          Q == {g \in available_times :
                  /\ g.date_id = id
                  /\ g.is_available
                  /\ ~\E r \in service_availability : r.date_id = id /\ r.time = g.time}
          L == FetchServiceSpecificTimes(d, s)
      IN /\ Len(L) = Cardinality(Q)
         /\ SeqToSet(L) = {[time |-> g.time, is_available |-> TRUE] : g \in Q}
         /\ Ascending(L)

\* the scenario: general rows {first time available, second time unavailable}
C6_Witness ==
  /\ formData["c1"].service # Empty
  /\ formData["c1"].date # Empty
  /\ service_availability = {}
  /\ {[time |-> g.time, is_available |-> g.is_available] :
        g \in {q \in available_times : DateOf(q.date_id) = formData["c1"].date}}
       = {[time |-> 1, is_available |-> TRUE], [time |-> 2, is_available |-> FALSE]}
  /\ availableTimes["c1"] = <<[time |-> 1, is_available |-> TRUE]>>

\* C7: for a service with ServiceSlot rows, slotsFor is the available
\* ServiceSlot rows of (service, date), ascending by time; an unavailable row
\* is never listed.
C7_ServiceTier ==
  \A s \in Services, d \in Dates :
    (HasConfig(s) /\ DateRows(d) # {}) =>
      LET id == TheRow(DateRows(d)).id
          Q == {r \in service_availability :
                  r.service_id = s /\ r.date_id = id /\ r.is_available}
          L == FetchServiceSpecificTimes(d, s)
      IN /\ Len(L) = Cardinality(Q)
         /\ SeqToSet(L) = {[time |-> r.time, is_available |-> TRUE] : r \in Q}
         /\ Ascending(L)

\* the form lists a configured service on a date where it has an available and
\* an unavailable row
C7_Witness ==
  /\ formData["c1"].service # Empty
  /\ formData["c1"].date # Empty
  /\ Len(availableTimes["c1"]) = 1
  /\ \E r, u \in service_availability :
       /\ r.service_id = formData["c1"].service
       /\ u.service_id = formData["c1"].service
       /\ DateOf(r.date_id) = formData["c1"].date
       /\ u.date_id = r.date_id
       /\ r.is_available
       /\ ~u.is_available
       /\ availableTimes["c1"] = <<[time |-> r.time, is_available |-> TRUE]>>

\* C8: a service with a ServiceSlot row on any date gets an empty listing on a
\* date where it has none, whatever the general rows of that date.
C8_NoPerDateFallback ==
  \A s \in Services, d \in Dates :
    (HasConfig(s) /\ ~\E r \in service_availability :
                        r.service_id = s /\ DateOf(r.date_id) = d) =>
      FetchServiceSpecificTimes(d, s) = <<>>

\* the selected service is configured on another date only, and the general
\* tier of this date has times to offer
C8_Witness ==
  \E d \in Dates :
    /\ formData["c1"].service # Empty
    /\ HasConfig(formData["c1"].service)
    /\ DateRows(d) # {}
    /\ ~\E r \in service_availability :
          r.service_id = formData["c1"].service /\ DateOf(r.date_id) = d
    /\ FetchAvailableTimes(d) # <<>>
    /\ FetchServiceSpecificTimes(d, formData["c1"].service) = <<>>

\* the row handleRemoveTime is removing exists and its insertion displaced no
\* general row
RemovesUndisplaced(a, t) ==
  /\ HandleRemoveTime(a, t.id, t.time)
  /\ \E r \in service_availability : r.id = t.id
  /\ t.id \notin displaced

\* C9 as stated: removing a ServiceSlot that displaced no GeneralSlot leaves no
\* GeneralSlot row at (date, time).
C9_NoResurrection ==
  [][\A a \in Admins : \A t \in serviceAvailability[a] :
       RemovesUndisplaced(a, t) =>
         ~\E g \in available_times' :
            DateOf(g.date_id) = selectedDate[a] /\ g.time = t.time]_vars

\* C9 amended: removing a ServiceSlot that displaced no GeneralSlot leaves
\* exactly one GeneralSlot row at (date, time), available when the removal
\* created it.
C9_AlwaysAddedBack ==
  [][\A a \in Admins : \A t \in serviceAvailability[a] :
       RemovesUndisplaced(a, t) =>
         LET before == {g \in available_times :
                          DateOf(g.date_id) = selectedDate[a] /\ g.time = t.time}
             after == {g \in available_times' :
                         DateOf(g.date_id) = selectedDate[a] /\ g.time = t.time}
         IN /\ Cardinality(after) = 1
            /\ before = {} => \A g \in after : g.is_available]_vars

\* a row that displaced nothing was removed and a general row stands at its
\* (date, time)
C9_Witness ==
  \E e \in released :
    /\ e.n = 1
    /\ ~e.displaced
    /\ \E g \in available_times :
         DateOf(g.date_id) = e.date /\ g.time = e.time /\ g.id >= FirstId

C12_ToggleTwice ==
  [][\A a \in Admins : \A t \in serviceAvailability[a] :
       (/\ HandleToggleAvailability(a, t.id, t.is_available)
        /\ \E e \in toggled : e.admin = a /\ e.id = t.id) =>
         \A e \in toggled : \A r \in service_availability' :
           r.id = t.id => r.is_available = e.was]_vars

\* one of the four inputs of the form is missing
MissingInput(c) ==
  \/ formData[c].name = Empty
  \/ formData[c].service = Empty
  \/ formData[c].date = Empty
  \/ formData[c].time = Empty

\* C13: handleSubmit with one of the four inputs missing ends with the
\* validation alert and writes nothing: no Appointment row is created and no
\* slot flag changes.
C13_ValidationNoWrite ==
  [][\A c \in Clients :
       (/\ pc[c] = "form"
        /\ MissingInput(c)
        /\ pc'[c] # "form" \/ outcome'[c] # outcome[c]) =>
         /\ outcome'[c] = "invalid"
         /\ pc'[c] = "form"
         /\ UNCHANGED <<appointments, available_times, service_availability,
                        available_dates>>]_vars

\* the form was submitted with service, date and time chosen but no name
C13_Witness ==
  /\ outcome["c1"] = "invalid"
  /\ formData["c1"].name = Empty
  /\ formData["c1"].service # Empty
  /\ formData["c1"].date # Empty
  /\ formData["c1"].time # Empty
  /\ appointments = {}

\* the row handleSubmit of the session inserted
Booked(c) == \E ap \in appointments : ap.id = c

\* C14: when the Appointment insert fails, handleSubmit ends with the error
\* alert, changes no slot flag and does not call onSubmit; a slot flag is
\* flipped, and onSubmit called, only by a session whose Appointment row is
\* already written.
C14_FlipAfterInsert ==
  [][\A c \in Clients :
       /\ (pc[c] = "form" /\ outcome[c] # "error" /\ outcome'[c] = "error") =>
            /\ pc'[c] = "form"
            /\ ~Booked(c)'
            /\ UNCHANGED <<appointments, available_times, service_availability>>
       /\ (/\ pc'[c] # pc[c]
           /\ <<available_times, service_availability>>' #
                <<available_times, service_availability>>) => Booked(c)
       /\ (outcome[c] # "submitted" /\ outcome'[c] = "submitted") => Booked(c)]_vars

\* the insert failed for a complete form: error shown, nothing booked, the
\* chosen time still listed
C14_Witness ==
  /\ outcome["c1"] = "error"
  /\ pc["c1"] = "form"
  /\ formData["c1"].name # Empty
  /\ formData["c1"].time # Empty
  /\ appointments = {}
  /\ formData["c1"].time \in
       TimesOf(FetchServiceSpecificTimes(formData["c1"].date, formData["c1"].service))

\* C15: when handleSubmit completes for a session whose Appointment is written
\* while neither a ServiceSlot row of (service, date, time) nor a GeneralSlot
\* row of (date, time) exists, it signals a stale-slot warning and the
\* Appointment row stays.
C15_StaleSlotWarning ==
  [][\A c \in Clients :
       (/\ BookCompletes(c)
        /\ Booked(c)
        /\ ~\E r \in service_availability :
              /\ r.service_id = formData[c].service
              /\ DateOf(r.date_id) = formData[c].date
              /\ r.time = formData[c].time
        /\ ~\E g \in available_times :
              DateOf(g.date_id) = formData[c].date /\ g.time = formData[c].time) =>
         /\ outcome'[c] = "warned"
         /\ Booked(c)']_vars

\* C16: handleAddTime for a (service, date, time) that already has a
\* ServiceSlot row ends with the duplicate error and leaves the ServiceSlot
\* and GeneralSlot tables unchanged.
C16_DuplicateRejected ==
  [][\A a \in Admins : \A t \in Times :
       (/\ HandleAddTime(a, t)
        /\ \E r \in service_availability :
             /\ r.service_id = selectedService[a]
             /\ DateOf(r.date_id) = selectedDate[a]
             /\ r.time = t) =>
         /\ error'[a] = "duplicate"
         /\ UNCHANGED <<service_availability, available_times>>]_vars

\* a duplicate add was rejected while a general row stands at the same
\* (date, time) as the existing ServiceSlot row
C16_Witness ==
  /\ error["a1"] = "duplicate"
  /\ \E r \in service_availability, g \in available_times :
       /\ r.service_id = selectedService["a1"]
       /\ DateOf(r.date_id) = selectedDate["a1"]
       /\ g.date_id = r.date_id
       /\ g.time = r.time

\* C20: a handleAddTime that inserts leaves an available ServiceSlot row of
\* (service, date, time) and no GeneralSlot row at (date, time), whatever the
\* flag of the GeneralSlot row that was there.
C20_AddDisplacesGeneral ==
  [][\A a \in Admins : \A t \in Times :
       (HandleAddTime(a, t) /\ service_availability' # service_availability) =>
         /\ \E r \in service_availability' :
              /\ r.service_id = selectedService[a]
              /\ DateOf(r.date_id)' = selectedDate[a]
              /\ r.time = t
              /\ r.is_available
         /\ ~\E g \in available_times' :
               DateOf(g.date_id)' = selectedDate[a] /\ g.time = t]_vars

\* an added row that displaced a general row stands available, with no general
\* row at its (date, time)
C20_Witness ==
  \E r \in service_availability :
    /\ r.id \in added \cap displaced
    /\ r.is_available
    /\ error["a1"] = ""
    /\ ~\E g \in available_times : g.date_id = r.date_id /\ g.time = r.time

\* the queries fetchServiceSpecificTimes issues for (date, service) up to the
\* first that fails, and those checkServiceConfiguration issues for a service
IssuedSlotQueries(date, serviceId) ==
  {"date"} \cup
  (IF DateRows(date) = {} THEN {}
   ELSE {"config"} \cup
        (IF HasConfig(serviceId) THEN {"serviceTimes"}
         ELSE {"generalTimes", "allServiceTimes"}))

IssuedDateQueries(serviceId) ==
  {"config"} \cup (IF HasConfig(serviceId) THEN {"serviceDates"} ELSE {"generalDates"})

\* C17: when a query of the resolution path fails, datesFor and slotsFor give
\* the empty sequence; a failed query never makes them list the other tier.
C17_FailureGivesEmpty ==
  \A s \in Services :
    /\ \A q \in IssuedDateQueries(s) : DatesForFailing(s, {q}) = <<>>
    /\ \A d \in Dates : \A q \in IssuedSlotQueries(d, s) :
         FetchServiceSpecificTimesFailing(d, s, {q}) = <<>>

\* C18: selecting a service that has ServiceSlot rows, at least one of them
\* available on a date from today on, shows the suggestion naming the earliest
\* of those rows by date and then time.
C18_SuggestionIsEarliest ==
  [][\A c \in Clients : \A s \in Services :
       LET rows == {r \in service_availability :
                      r.service_id = s /\ r.is_available /\ DateOf(r.date_id) >= today}
           d0 == CHOOSE d \in {DateOf(r.date_id) : r \in rows} :
                   \A r \in rows : d <= DateOf(r.date_id)
           t0 == CHOOSE t \in {r.time : r \in {q \in rows : DateOf(q.date_id) = d0}} :
                   \A r \in rows : DateOf(r.date_id) = d0 => t <= r.time
       IN (HandleServiceChange(c, s) /\ rows # {}) =>
            /\ SuggestionShown(c)'
            /\ serviceSuggestion'[c] = <<"slot", s, d0, t0>>]_vars

\* C19: once no checkServiceConfiguration of the session is running, no
\* suggestion is shown while the selected service has no ServiceSlot row.
C19_NoSuggestionWithoutConfiguration ==
  \A c \in Clients :
    (/\ pending[c] = {}
     /\ formData[c].service # Empty
     /\ ~HasConfig(formData[c].service)) => ~SuggestionShown(c)

\* C21: the configuration check of a service answers true exactly when the
\* store holds at least one ServiceSlot row of the service, on any date and
\* with any flag, and it leaves the store as it was.
C21_HasConfiguration ==
  [][\A c \in Clients : \A s \in Services :
       HandleServiceChange(c, s) =>
         /\ hasServiceConfiguration'[c] =
              (Cardinality({r \in service_availability : r.service_id = s}) >= 1)
         /\ UNCHANGED storeVars]_vars

\* the form found configuration for a service whose only row is unavailable
\* and lies on a date before today
C21_Witness ==
  /\ formData["c1"].service # Empty
  /\ hasServiceConfiguration["c1"]
  /\ \E r \in service_availability : r.service_id = formData["c1"].service
  /\ \A r \in service_availability :
       r.service_id = formData["c1"].service =>
         ~r.is_available /\ DateOf(r.date_id) < today

\* C22: handleToggleAvailability on a row that exists sets that row's
\* is_available to the opposite of the displayed flag and changes nothing
\* else: the other ServiceSlot rows, the GeneralSlot rows, the DateRecords and
\* the Appointments stay as they were.
C22_ToggleFrame ==
  [][\A a \in Admins : \A t \in serviceAvailability[a] :
       (/\ HandleToggleAvailability(a, t.id, t.is_available)
        /\ \E r \in service_availability : r.id = t.id) =>
         /\ UNCHANGED <<available_times, available_dates, appointments>>
         /\ service_availability' =
              {IF r.id = t.id THEN [r EXCEPT !.is_available = ~t.is_available] ELSE r :
                 r \in service_availability}
         /\ \A r \in service_availability : r.id # t.id => r \in service_availability']_vars

\* a row was toggled while another service holds a row at the same time and
\* general rows exist; the other row still has its flag
C22_Witness ==
  \E e \in toggled : \E r, q \in service_availability :
    /\ r.id = e.id
    /\ r.is_available # e.was
    /\ q.id # r.id
    /\ q.date_id = r.date_id
    /\ q.time = r.time
    /\ q.is_available = e.was
    /\ available_times # {}

\* C23: when the operator declines the confirmation, handleRemoveTime leaves
\* the store as it was: no ServiceSlot row is deleted and no GeneralSlot row is
\* created.
C23_DeclinedRemovesNothing ==
  [][\A a \in Admins : \A t \in serviceAvailability[a] :
       HandleRemoveTimeDeclined(a, t.id, t.time) =>
         UNCHANGED <<service_availability, available_times, available_dates,
                     appointments>>]_vars

\* the removal of a row was declined: the row stands and no general row was
\* created at its (date, time)
C23_Witness ==
  \E e \in released : \E r \in service_availability :
    /\ e.n = 0
    /\ r.id = e.id
    /\ ~\E g \in available_times : DateOf(g.date_id) = e.date /\ g.time = e.time

\* C24: selecting a service that has ServiceSlot rows, none of them available
\* on a date from today on, yields the "selected, pick a date" hint, and the
\* hint is shown, unlike the empty outcome of a service without configuration.
C24_HintWhenNothingQualifies ==
  [][\A c \in Clients : \A s \in Services :
       LET rows == {r \in service_availability :
                      r.service_id = s /\ r.is_available /\ DateOf(r.date_id) >= today}
       IN (HandleServiceChange(c, s) /\ HasConfig(s) /\ rows = {}) =>
            /\ serviceSuggestion'[c] = <<"choose", s, Empty, Empty>>
            /\ SuggestionShown(c)']_vars

\* C25: once no fetch of times of the session is running, the list of times the
\* form shows is slotsFor of the service and the date now selected; the late
\* response of an earlier selection never replaces it.
C25_ListIsOfCurrentSelection ==
  \A c \in Clients :
    (/\ fetching[c] = {}
     /\ formData[c].service # Empty
     /\ formData[c].date # Empty) =>
       availableTimes[c] = FetchServiceSpecificTimes(formData[c].date, formData[c].service)

\* C26: in every state, the time of a pending Appointment written by a
\* completed handleSubmit is not in slotsFor of its service and date, whatever
\* the sessions added, removed or toggled.
C26_BookedSlotNeverOffered ==
  \A ap \in appointments :
    (ap.status = "pending" /\ pc[ap.id] = "done") =>
      ap.time \notin TimesOf(FetchServiceSpecificTimes(ap.date, ap.service_id))

\* C27: in every state there is at most one ServiceSlot row per (service,
\* date entry, time) and at most one date entry per date, also when two manager
\* sessions run handleAddTime at once for the same (service, date, time).
C27_NoDuplicateRows ==
  /\ \A r, q \in service_availability :
       (r.service_id = q.service_id /\ r.date_id = q.date_id /\ r.time = q.time) => r = q
  /\ \A d, e \in available_dates : d.date = e.date => d = e

\* C28: started from a store where no GeneralSlot row shares its (date, time)
\* with a ServiceSlot row, the manager's adds, removals and toggles over the
\* services never reach a state where a GeneralSlot row and a ServiceSlot row
\* of any service stand at the same (date, time).
C28_TiersNeverOverlap ==
  \A g \in available_times : \A r \in service_availability :
    ~(DateOf(g.date_id) = DateOf(r.date_id) /\ g.time = r.time)

\* C29: when the session resolves the times of a date, the tier its
\* hasServiceConfiguration flag names for the selected service is the tier the
\* times query finds for it, also when the manager added or removed rows of
\* the service since the flag was computed.
C29_FlagMatchesResolvedTier ==
  [][\A c \in Clients : \A d \in Dates :
       (OnDateSelect(c, d) /\ formData[c].service # Empty) =>
         hasServiceConfiguration'[c] = HasConfig(formData[c].service)]_vars

\* C30: the sequence datesFor returns holds each date at most once, also for a
\* service with several available ServiceSlot rows on one date.
C30_DatesWithoutRepetition ==
  \A s \in Services :
    \A i, j \in DOMAIN DatesFor(s) : DatesFor(s)[i] = DatesFor(s)[j] => i = j

====
